---- MODULE Spec2Model ----
(***************************************************************************)
(* What-if scenario simulation of the budget planner.                      *)
(*                                                                         *)
(* State: the application data shared by the managers (app_data.budgets    *)
(* and app_data.scenarios) and the value returned by the last manager      *)
(* call.  Python dicts are functions with a finite domain, None is the     *)
(* string "None", and amounts are integers counted in hundredths of the    *)
(* currency unit, so that 9,999.99 is a value of the model.  calls holds   *)
(* the simulate_scenario calls that run statement by statement: the frame  *)
(* of each caller and the budget dicts those frames own.  issued is the    *)
(* set of ids uuid4() has handed out, and legacy the scenario list of the  *)
(* ScenarioManager of scenarios.py.                                        *)
(***************************************************************************)
EXTENDS Integers, Sequences, FiniteSets, TLC

VARIABLES budgets, scenarios, ret, calls, issued, legacy

vars == <<budgets, scenarios, ret, calls, issued, legacy>>

\* ------------------------------------------------------------------ bounds

\* Number of months of the planning horizon kept by the model (24 in config.py).
HorizonLen == 2

\* Longest list of changes given to create_scenario.
MaxChanges == 2

\* ------------------------------------------------------- python values

None == "None"

EmptyDict == [k \in {} |-> 0]

\* d.get(k, default)
Get(d, k, default) == IF k \in DOMAIN d THEN d[k] ELSE default

\* d[k] = v
Put(d, k, v) == [x \in (DOMAIN d) \cup {k} |-> IF x = k THEN v ELSE d[x]]

\* del d[k]
Del(d, k) == [x \in (DOMAIN d) \ {k} |-> d[x]]

\* An amount written in currency units, as hundredths.
Amt(n) == n * 100

RECURSIVE SumValues(_)
\* sum(d.values())
SumValues(d) ==
    IF DOMAIN d = {} THEN 0
    ELSE LET k == CHOOSE x \in DOMAIN d : TRUE
         IN d[k] + SumValues(Del(d, k))

\* abs(x)
Abs(x) == IF x < 0 THEN 0 - x ELSE x

\* ------------------------------------------------------------- config

\* The first month names generate_planning_months() produces.
MonthNames == <<"Aug-25", "Sep-25", "Oct-25", "Nov-25", "Dec-25", "Jan-26">>

PLANNING_MONTHS == SubSeq(MonthNames, 1, HorizonLen)

HorizonMonths == {PLANNING_MONTHS[i] : i \in 1..Len(PLANNING_MONTHS)}

\* A well-formed month name that generate_planning_months() does not produce.
OffHorizonMonth == "Aug-27"

\* PLANNING_MONTHS.index(m), counted from 1
IndexOf(m) == CHOOSE i \in 1..Len(PLANNING_MONTHS) : PLANNING_MONTHS[i] = m

\* BUDGET_TEMPLATES, cut down to the categories of the model.
BUDGET_TEMPLATES ==
    [Conservative |-> [Food |-> Amt(3000), Petrol |-> Amt(3000)]]

\* ------------------------------------------------------ object heap
(***************************************************************************)
(* simulate_scenario works on copies of app_data.budgets and changes them  *)
(* in place.  To tell a copy from an alias, the budget dicts a call works  *)
(* on live in a heap: h.top[name] is a month -> reference dict, h.cell[r]  *)
(* the category -> amount dict the reference r points to.                  *)
(***************************************************************************)

\* The heap that holds app_data.budgets under the name "store".
HeapOfStore(b) ==
    [top  |-> [n \in {"store"} |-> [m \in DOMAIN b |-> <<"store", m>>]],
     cell |-> [r \in {<<"store", m>> : m \in DOMAIN b} |-> b[r[2]]]]

\* The value of the budget dict called name.
Deref(h, name) == [m \in DOMAIN h.top[name] |-> h.cell[h.top[name][m]]]

\* A copy that shares the month dicts of its source (dict.copy()).
shallow_copy(h, src, dst) ==
    [h EXCEPT !.top = Put(h.top, dst, h.top[src])]

\* dst = deepcopy(src): new month dicts with the same contents.
deepcopy(h, src, dst) ==
    [top  |-> Put(h.top, dst, [m \in DOMAIN h.top[src] |-> <<dst, m>>]),
     cell |-> [r \in (DOMAIN h.cell) \cup {<<dst, m>> : m \in DOMAIN h.top[src]} |->
                 IF r[1] = dst THEN h.cell[h.top[src][r[2]]] ELSE h.cell[r]]]

\* month in budgets
HasMonth(h, name, m) == m \in DOMAIN h.top[name]

\* budgets[month] = {}
NewMonth(h, name, m) ==
    [top  |-> [h.top EXCEPT ![name] = Put(@, m, <<name, m>>)],
     cell |-> Put(h.cell, <<name, m>>, EmptyDict)]

\* category in budgets[month]
HasCategory(h, name, m, c) == c \in DOMAIN h.cell[h.top[name][m]]

\* budgets[month][category]
CellValue(h, name, m, c) == h.cell[h.top[name][m]][c]

\* budgets[month][category] = v
SetCell(h, name, m, c, v) ==
    [h EXCEPT !.cell = Put(h.cell, h.top[name][m], Put(h.cell[h.top[name][m]], c, v))]

\* ------------------------------------------- ScenarioSimulator.apply_change

\* A list element that is not a dict: change.get raises AttributeError on it.
NotADict == [py_type |-> "str"]

IsDict(change) == "py_type" \notin DOMAIN change

\* PLANNING_MONTHS.index(start_month) if start_month in PLANNING_MONTHS else 0
StartIdx(start_month) ==
    IF start_month \in HorizonMonths THEN IndexOf(start_month) ELSE 1

\* PLANNING_MONTHS.index(end_month) if end_month in PLANNING_MONTHS
\* else len(PLANNING_MONTHS) - 1
EndIdx(end_month) ==
    IF end_month \in HorizonMonths THEN IndexOf(end_month) ELSE Len(PLANNING_MONTHS)

\* A loop body that keeps the new amount from going below 0.
BudgetChangeMonthClamped(h, name, category, amount_change, i) ==
    LET month == PLANNING_MONTHS[i]
        h1 == IF HasMonth(h, name, month) THEN h ELSE NewMonth(h, name, month)
        h2 == IF HasCategory(h1, name, month, category) THEN h1
              ELSE SetCell(h1, name, month, category, 0)
        v  == CellValue(h2, name, month, category) + amount_change
    IN SetCell(h2, name, month, category, IF v < 0 THEN 0 ELSE v)

\* One pass of the budget_change loop body, for month PLANNING_MONTHS[i].
BudgetChangeMonth(h, name, category, amount_change, i) ==
    LET month == PLANNING_MONTHS[i]
        h1 == IF HasMonth(h, name, month) THEN h ELSE NewMonth(h, name, month)
        h2 == IF HasCategory(h1, name, month, category) THEN h1
              ELSE SetCell(h1, name, month, category, 0)
    IN SetCell(h2, name, month, category,
               CellValue(h2, name, month, category) + amount_change)

RECURSIVE BudgetChangeLoop(_, _, _, _, _, _)
\* for i in range(start_idx, end_idx + 1), from i on
BudgetChangeLoop(h, name, category, amount_change, i, end_idx) ==
    IF i > end_idx THEN h
    ELSE BudgetChangeLoop(BudgetChangeMonth(h, name, category, amount_change, i),
                          name, category, amount_change, i + 1, end_idx)

\* The one_time_event branch.
OneTimeEvent(h, name, category, event_month, amount) ==
    IF HasMonth(h, name, event_month)
    THEN LET h1 == IF HasCategory(h, name, event_month, category) THEN h
                   ELSE SetCell(h, name, event_month, category, 0)
         IN SetCell(h1, name, event_month, category,
                    CellValue(h1, name, event_month, category) + amount)
    ELSE h

\* A pause that leaves the amount as it is.
PauseMonthKeeps(h, name, category, i) == h

\* A pause that writes 0 whether or not the month and the category are
\* there.
PauseMonthCreates(h, name, category, i) ==
    LET month == PLANNING_MONTHS[i]
        h1 == IF HasMonth(h, name, month) THEN h ELSE NewMonth(h, name, month)
    IN SetCell(h1, name, month, category, 0)

\* One pass of the pause loop body.
PauseMonth(h, name, category, i) ==
    LET month == PLANNING_MONTHS[i]
    IN IF HasMonth(h, name, month) /\ HasCategory(h, name, month, category)
       THEN SetCell(h, name, month, category, 0)
       ELSE h

\* A double that leaves the amount as it is.
DoubleMonthKeeps(h, name, category, i) == h

\* One pass of the double loop body.
DoubleMonth(h, name, category, i) ==
    LET month == PLANNING_MONTHS[i]
    IN IF HasMonth(h, name, month) /\ HasCategory(h, name, month, category)
       THEN SetCell(h, name, month, category, CellValue(h, name, month, category) * 2)
       ELSE h

RECURSIVE PauseLoop(_, _, _, _, _)
PauseLoop(h, name, category, i, end_idx) ==
    IF i > end_idx THEN h
    ELSE PauseLoop(PauseMonth(h, name, category, i), name, category, i + 1, end_idx)

RECURSIVE DoubleLoopExclusive(_, _, _, _, _)
\* The double loop over range(start_idx, end_idx): the end month left out.
DoubleLoopExclusive(h, name, category, i, end_idx) ==
    IF i >= end_idx THEN h
    ELSE DoubleLoopExclusive(DoubleMonth(h, name, category, i),
                             name, category, i + 1, end_idx)

RECURSIVE DoubleLoop(_, _, _, _, _)
DoubleLoop(h, name, category, i, end_idx) ==
    IF i > end_idx THEN h
    ELSE DoubleLoop(DoubleMonth(h, name, category, i), name, category, i + 1, end_idx)

\* apply_change(budgets, change), budgets being the heap object called name:
\* the heap afterwards, and whether the call raised.
apply_change(h, name, change) ==
    IF ~IsDict(change) THEN [heap |-> h, raised |-> TRUE]
    ELSE
    LET change_type == Get(change, "type", "budget_change")
        category    == Get(change, "category", None)
        start_month == Get(change, "start_month", None)
        end_month   == Get(change, "end_month", None)
        after ==
          IF change_type = "budget_change"
          THEN BudgetChangeLoop(h, name, category, Get(change, "amount_change", 0),
                                StartIdx(start_month), EndIdx(end_month))
          ELSE IF change_type = "one_time_event"
          THEN OneTimeEvent(h, name, category,
                            Get(change, "event_month", start_month),
                            Get(change, "amount", 0))
          ELSE IF change_type = "investment_adjustment"
          THEN LET adjustment_type == Get(change, "adjustment_type", "pause")
               IN IF adjustment_type = "pause"
                  THEN PauseLoop(h, name, category,
                                 StartIdx(start_month), EndIdx(end_month))
                  ELSE IF adjustment_type = "double"
                  THEN DoubleLoop(h, name, category,
                                  StartIdx(start_month), EndIdx(end_month))
                  ELSE h
          ELSE h
    IN [heap |-> after, raised |-> FALSE]

\* ------------------------------- ScenarioSimulator.generate_impact_summary

LOW_RISK_LIMIT == Amt(10000)

MEDIUM_RISK_LIMIT == Amt(50000)

\* The summary with both limits counted into the lower level (<= for <).
impact_summary_inclusive(impact, scenario) ==
    LET total_impact == impact.total_impact
        impact_type == IF total_impact > 0 THEN "increase"
                       ELSE IF total_impact < 0 THEN "decrease" ELSE "neutral"
    IN [net_change |-> total_impact, affected_periods |-> impact.affected_months,
        impact_type |-> impact_type,
        recommendation |->
            IF Abs(total_impact) <= Amt(10000)
            THEN "Low impact scenario - manageable changes"
            ELSE IF Abs(total_impact) <= Amt(50000)
            THEN "Moderate impact - review budget allocations"
            ELSE "High impact scenario - significant budget review required",
        risk_level |->
            IF Abs(total_impact) <= Amt(10000) THEN "low"
            ELSE IF Abs(total_impact) <= Amt(50000) THEN "medium" ELSE "high"]

generate_impact_summary(impact, scenario) ==
    LET total_impact    == impact.total_impact
        affected_months == impact.affected_months
        impact_type == IF total_impact > 0 THEN "increase"
                       ELSE IF total_impact < 0 THEN "decrease" ELSE "neutral"
    IN IF Abs(total_impact) < LOW_RISK_LIMIT
       THEN [net_change |-> total_impact, affected_periods |-> affected_months,
             impact_type |-> impact_type,
             recommendation |-> "Low impact scenario - manageable changes",
             risk_level |-> "low"]
       ELSE IF Abs(total_impact) < MEDIUM_RISK_LIMIT
       THEN [net_change |-> total_impact, affected_periods |-> affected_months,
             impact_type |-> impact_type,
             recommendation |-> "Moderate impact - review budget allocations",
             risk_level |-> "medium"]
       ELSE [net_change |-> total_impact, affected_periods |-> affected_months,
             impact_type |-> impact_type,
             recommendation |-> "High impact scenario - significant budget review required",
             risk_level |-> "high"]

\* ------------------------------------ ScenarioSimulator.calculate_impact

\* The change as a plain ratio of the original total, not times 100.
ChangeRatio(month_change, original_total) ==
    IF original_total > 0
    THEN [num |-> month_change, den |-> original_total]
    ELSE [num |-> 0, den |-> 1]

\* A percentage that takes a total of 0 for a total of 1.
ChangePercentOfOne(month_change, original_total) ==
    IF original_total > 0
    THEN [num |-> month_change * 100, den |-> original_total]
    ELSE [num |-> month_change * 100, den |-> 1]

\* (month_change / original_total * 100) if original_total > 0 else 0,
\* kept exact as the fraction num / den.
ChangePercent(month_change, original_total) ==
    IF original_total > 0
    THEN [num |-> month_change * 100, den |-> original_total]
    ELSE [num |-> 0, den |-> 1]

\* A loop body that records a month only when its total went up.
MonthlyStepIncreases(impact, original, simulated, i) ==
    LET month           == PLANNING_MONTHS[i]
        original_total  == SumValues(Get(original, month, EmptyDict))
        simulated_total == SumValues(Get(simulated, month, EmptyDict))
        month_change    == simulated_total - original_total
    IN IF month_change > 0
       THEN [impact EXCEPT
               !.monthly_changes = Put(@, month,
                   [original_total  |-> original_total,
                    simulated_total |-> simulated_total,
                    change          |-> month_change,
                    change_percent  |-> ChangePercent(month_change, original_total)]),
               !.affected_months = @ + 1,
               !.total_impact = @ + month_change]
       ELSE impact

\* One pass of the loop over PLANNING_MONTHS.
MonthlyStep(impact, original, simulated, i) ==
    LET month           == PLANNING_MONTHS[i]
        original_total  == SumValues(Get(original, month, EmptyDict))
        simulated_total == SumValues(Get(simulated, month, EmptyDict))
        month_change    == simulated_total - original_total
    IN IF month_change # 0
       THEN [impact EXCEPT
               !.monthly_changes = Put(@, month,
                   [original_total  |-> original_total,
                    simulated_total |-> simulated_total,
                    change          |-> month_change,
                    change_percent  |-> ChangePercent(month_change, original_total)]),
               !.affected_months = @ + 1,
               !.total_impact = @ + month_change]
       ELSE impact

RECURSIVE MonthlyLoop(_, _, _, _)
\* for month in PLANNING_MONTHS, from index i on
MonthlyLoop(impact, original, simulated, i) ==
    IF i > Len(PLANNING_MONTHS) THEN impact
    ELSE MonthlyLoop(MonthlyStep(impact, original, simulated, i),
                     original, simulated, i + 1)

\* The keys of the month dicts of the original snapshot only.
OriginalCategories(original, simulated) ==
    UNION {DOMAIN original[m] : m \in DOMAIN original}

\* The keys of every month dict of both snapshots.
AllCategories(original, simulated) ==
    UNION ({DOMAIN original[m] : m \in DOMAIN original}
           \cup {DOMAIN simulated[m] : m \in DOMAIN simulated})

\* sum(month_budgets.get(category, 0) for month_budgets in snapshot.values())
CategoryTotal(snapshot, category) ==
    SumValues([m \in DOMAIN snapshot |-> Get(snapshot[m], category, 0)])

\* A category report that lists every category, changed or not.
CategoryImpactAll(original, simulated) ==
    [c \in AllCategories(original, simulated) |->
          [original_total  |-> CategoryTotal(original, c),
           simulated_total |-> CategoryTotal(simulated, c),
           change          |-> CategoryTotal(simulated, c) - CategoryTotal(original, c)]]

CategoryImpact(original, simulated) ==
    LET changed == {c \in AllCategories(original, simulated) :
                      CategoryTotal(simulated, c) - CategoryTotal(original, c) # 0}
    IN [c \in changed |->
          [original_total  |-> CategoryTotal(original, c),
           simulated_total |-> CategoryTotal(simulated, c),
           change          |-> CategoryTotal(simulated, c) - CategoryTotal(original, c)]]

\* The integers from here on stand for the Python ints too large for a
\* float: int / int raises OverflowError on them.
FloatLimit == Amt(1000000)

\* month_change / original_total raises OverflowError in some pass of the
\* loop over PLANNING_MONTHS.
DivisionRaises(original, simulated) ==
    \E i \in 1..Len(PLANNING_MONTHS) :
        LET original_total  == SumValues(Get(original, PLANNING_MONTHS[i], EmptyDict))
            simulated_total == SumValues(Get(simulated, PLANNING_MONTHS[i], EmptyDict))
        IN /\ original_total > 0
           /\ Abs(simulated_total - original_total) >= FloatLimit

\* calculate_impact(original, simulated, scenario): the impact dict, or the
\* error dict the except branch returns in its place.
calculate_impact(original, simulated, scenario) ==
    IF DivisionRaises(original, simulated)
    THEN [error |-> "Impact calculation failed"]
    ELSE
    LET impact0 == [monthly_changes |-> EmptyDict, total_impact |-> 0,
                    affected_months |-> 0, category_impact |-> EmptyDict]
        impact1 == MonthlyLoop(impact0, original, simulated, 1)
        impact2 == [impact1 EXCEPT !.category_impact = CategoryImpact(original, simulated)]
    IN [monthly_changes |-> impact2.monthly_changes,
        total_impact    |-> impact2.total_impact,
        affected_months |-> impact2.affected_months,
        category_impact |-> impact2.category_impact,
        summary         |-> generate_impact_summary(impact2, scenario)]

\* ----------------------------------- ScenarioSimulator.simulate_scenario

RECURSIVE ApplyChangesButLast(_, _, _, _)
\* The loop over the changes ending one change early.
ApplyChangesButLast(h, name, changes, i) ==
    IF i >= Len(changes) THEN [heap |-> h, raised |-> FALSE]
    ELSE LET r == apply_change(h, name, changes[i])
         IN IF r.raised THEN r
            ELSE ApplyChangesButLast(r.heap, name, changes, i + 1)

RECURSIVE ApplyChangesFrom(_, _, _, _)
\* for change in scenario['changes']: self.apply_change(simulated_budgets, change)
\* from the i-th change on; the loop ends at the first change that raises.
ApplyChangesFrom(h, name, changes, i) ==
    IF i > Len(changes) THEN [heap |-> h, raised |-> FALSE]
    ELSE LET r == apply_change(h, name, changes[i])
         IN IF r.raised THEN r
            ELSE ApplyChangesFrom(r.heap, name, changes, i + 1)

\* simulate_scenario(scenario_id) on the store b and the scenario store sc:
\* the heap when the call returns and the dict it returns.
simulate_scenario(b, sc, scenario_id) ==
    LET h0 == HeapOfStore(b)
    IN IF scenario_id \notin DOMAIN sc
       THEN [heap |-> h0, result |-> [error |-> "Scenario not found"]]
       ELSE LET scenario == sc[scenario_id]
                h1 == deepcopy(h0, "store", "original")
                h2 == deepcopy(h1, "store", "simulated")
                r  == ApplyChangesFrom(h2, "simulated", scenario.changes, 1)
            IN IF r.raised
               THEN [heap |-> r.heap, result |-> [error |-> "Simulation failed"]]
               ELSE [heap   |-> r.heap,
                     result |->
                       [scenario          |-> scenario,
                        impact            |-> calculate_impact(Deref(r.heap, "original"),
                                                               Deref(r.heap, "simulated"),
                                                               scenario),
                        original_budgets  |-> Deref(r.heap, "original"),
                        simulated_budgets |-> Deref(r.heap, "simulated")]]

\* ------------------------------------------------------------- inputs

FirstMonth == PLANNING_MONTHS[1]

LastMonth == PLANNING_MONTHS[Len(PLANNING_MONTHS)]

\* The categories set_budget is called with.
Categories == {"Food"}

BudgetChange(c, d, s, e) ==
    [type |-> "budget_change", category |-> c, amount_change |-> d,
     start_month |-> s, end_month |-> e]

Event(c, a, m) ==
    [type |-> "one_time_event", category |-> c, amount |-> a, event_month |-> m]

Adjustment(c, k, s, e) ==
    [type |-> "investment_adjustment", category |-> c, adjustment_type |-> k,
     start_month |-> s, end_month |-> e]

\* Changes of the three kinds, their months in the horizon.
ChangeInputs ==
    { BudgetChange("Food", Amt(5000), FirstMonth, FirstMonth),
      Event("Petrol", Amt(2000), FirstMonth),
      Adjustment("Food", "pause", FirstMonth, FirstMonth),
      Adjustment("Food", "double", FirstMonth, LastMonth) }

\* Changes whose months are inverted, outside the horizon or missing, and a
\* list element that is no dict, beside a valid change.
RangeChangeInputs ==
    { BudgetChange("Food", Amt(5000), FirstMonth, FirstMonth),
      BudgetChange("Food", Amt(5000), LastMonth, FirstMonth),
      BudgetChange("Petrol", Amt(0 - 1000), OffHorizonMonth, LastMonth),
      Event("Food", Amt(2000), OffHorizonMonth),
      [type |-> "investment_adjustment", category |-> "Food",
       adjustment_type |-> "pause", start_month |-> LastMonth],
      Adjustment("Food", "double", OffHorizonMonth, FirstMonth),
      NotADict }

RECURSIVE SeqsUpTo(_, _)
\* The sequences over S of length at most n.
SeqsUpTo(S, n) ==
    IF n = 0 THEN {<<>>}
    ELSE LET shorter == SeqsUpTo(S, n - 1)
         IN shorter \cup {Append(s, x) : s \in shorter, x \in S}

\* The values uuid4() gives a new scenario; the store holds at most this many.
ScenarioIds == {"id-1"}

\* An id no scenario was ever given.
UnknownId == "id-0"

ScenarioNames == {"Plan"}

MonthInputs == HorizonMonths \cup {OffHorizonMonth}

AmountInputs == {Amt(3000), Amt(0 - 500)}

TemplateInputs == {"Conservative", "Custom"}

\* The month lists apply_template is called with.
MonthListInputs == {{m} : m \in MonthInputs} \cup {{LastMonth, OffHorizonMonth}}

\* --------------------------------------- simulate_scenario in progress

\* The callers that may each have one simulate_scenario call in progress.
Callers == {1, 2}

\* The local variables original_budgets and simulated_budgets of caller t.
OriginalOf(t) == IF t = 1 THEN "original-1" ELSE "original-2"

SimulatedOf(t) == IF t = 1 THEN "simulated-1" ELSE "simulated-2"

\* No call in progress.
IdleFrame == [pc |-> "idle"]

NoCalls ==
    [heap  |-> [top |-> EmptyDict, cell |-> EmptyDict],
     frame |-> [t \in Callers |-> IdleFrame]]

\* The heap of the calls in progress together with the store b.
WithStore(b, h) ==
    [top  |-> [n \in {"store"} \cup DOMAIN h.top |->
                 IF n = "store" THEN [m \in DOMAIN b |-> <<"store", m>>]
                 ELSE h.top[n]],
     cell |-> [r \in {<<"store", m>> : m \in DOMAIN b} \cup DOMAIN h.cell |->
                 IF r[1] = "store" THEN b[r[2]] ELSE h.cell[r]]]

\* The heap without the dicts called names and without the store.
LocalsOf(h, names) ==
    [top  |-> [n \in (DOMAIN h.top) \ ({"store"} \cup names) |-> h.top[n]],
     cell |-> [r \in {x \in DOMAIN h.cell : x[1] \notin {"store"} \cup names} |->
                 h.cell[r]]]

\* ------------------------------------------------------------ actions

Init ==
    /\ budgets = EmptyDict
    /\ scenarios = EmptyDict
    /\ ret = [op |-> "init"]
    /\ calls = NoCalls
    /\ issued = {}
    /\ legacy = <<>>

\* BudgetManager.set_budget(month, category, amount); save_ok is what
\* data_manager.save() returns.
SetBudget(month, category, amount, save_ok) ==
    IF month \notin HorizonMonths
    THEN /\ ret' = [op |-> "set_budget", ok |-> FALSE, message |-> "Invalid month"]
         /\ UNCHANGED <<budgets, scenarios, calls, issued, legacy>>
    ELSE IF amount < 0
    THEN /\ ret' = [op |-> "set_budget", ok |-> FALSE,
                    message |-> "Budget amount cannot be negative"]
         /\ UNCHANGED <<budgets, scenarios, calls, issued, legacy>>
    ELSE /\ budgets' = Put(budgets, month,
                           Put(Get(budgets, month, EmptyDict), category, amount))
         /\ ret' = IF save_ok
                   THEN [op |-> "set_budget", ok |-> TRUE,
                         message |-> "Budget saved successfully"]
                   ELSE [op |-> "set_budget", ok |-> FALSE,
                         message |-> "Failed to save budget"]
         /\ UNCHANGED <<scenarios, calls, issued, legacy>>

\* BudgetManager.copy_budget_from_month(source_month, target_month)
CopyBudgetFromMonth(source_month, target_month, save_ok) ==
    IF source_month \notin DOMAIN budgets
    THEN /\ ret' = [op |-> "copy_budget_from_month", ok |-> FALSE,
                    message |-> "No budget data found"]
         /\ UNCHANGED <<budgets, scenarios, calls, issued, legacy>>
    ELSE /\ budgets' = Put(budgets, target_month, budgets[source_month])
         /\ ret' = IF save_ok
                   THEN [op |-> "copy_budget_from_month", ok |-> TRUE,
                         message |-> "Budget copied"]
                   ELSE [op |-> "copy_budget_from_month", ok |-> FALSE,
                         message |-> "Failed to save budget"]
         /\ UNCHANGED <<scenarios, calls, issued, legacy>>

\* The store after apply_template's loop over months (a set: the loop's
\* passes write different keys).
TemplateApplied(b, template, months) ==
    [m \in (DOMAIN b) \cup (months \cap HorizonMonths) |->
        IF m \in months \cap HorizonMonths THEN template ELSE b[m]]

\* apply_template(template_name, months): the store and the pair returned.
apply_template(b, template_name, months, save_ok) ==
    IF template_name \notin DOMAIN BUDGET_TEMPLATES
    THEN [budgets |-> b, ok |-> FALSE, message |-> "Template not found"]
    ELSE IF months \cap HorizonMonths = {}
    THEN [budgets |-> b, ok |-> FALSE, message |-> "No valid months to apply template"]
    ELSE [budgets |-> TemplateApplied(b, BUDGET_TEMPLATES[template_name], months),
          ok      |-> save_ok,
          message |-> IF save_ok THEN "Template applied" ELSE "Failed to save budget"]

\* BudgetManager.apply_template(template_name, months)
ApplyTemplate(template_name, months, save_ok) ==
    LET r == apply_template(budgets, template_name, months, save_ok)
    IN /\ budgets' = r.budgets
       /\ ret' = [op |-> "apply_template", ok |-> r.ok, message |-> r.message]
       /\ UNCHANGED <<scenarios, calls, issued, legacy>>

\* BudgetManager.auto_fill_all_months(base_template)
AutoFillAllMonths(base_template, save_ok) ==
    LET r == apply_template(budgets, base_template, HorizonMonths, save_ok)
    IN /\ budgets' = r.budgets
       /\ ret' = [op |-> "auto_fill_all_months", ok |-> r.ok,
                  message |-> IF r.ok THEN "Auto-filled all months" ELSE r.message]
       /\ UNCHANGED <<scenarios, calls, issued, legacy>>

\* Scenario(...).to_dict() with the id uuid4() returned.
ScenarioDict(id, name, description, scenario_type, changes) ==
    [id |-> id, name |-> name, description |-> description,
     scenario_type |-> scenario_type, changes |-> changes,
     created_at |-> "now"]

\* ScenarioSimulator.create_scenario(name, description, scenario_type, changes);
\* id is the fresh value uuid4() returns.
CreateScenario(id, name, description, scenario_type, changes, save_ok) ==
    /\ id \notin issued
    /\ issued' = issued \cup {id}
    /\ scenarios' = Put(scenarios, id,
                        ScenarioDict(id, name, description, scenario_type, changes))
    /\ ret' = IF save_ok
              THEN [op |-> "create_scenario", ok |-> TRUE,
                    message |-> "Scenario created successfully"]
              ELSE [op |-> "create_scenario", ok |-> FALSE,
                    message |-> "Failed to save scenario"]
    /\ UNCHANGED <<budgets, calls, legacy>>

\* A delete_scenario that empties the scenario store.
DeleteScenarioClears(scenario_id, save_ok) ==
    IF scenario_id \notin DOMAIN scenarios
    THEN /\ ret' = [op |-> "delete_scenario", ok |-> FALSE,
                    message |-> "Scenario not found"]
         /\ UNCHANGED <<budgets, scenarios, calls, issued, legacy>>
    ELSE /\ scenarios' = EmptyDict
         /\ ret' = IF save_ok
                   THEN [op |-> "delete_scenario", ok |-> TRUE,
                         message |-> "Scenario deleted successfully"]
                   ELSE [op |-> "delete_scenario", ok |-> FALSE,
                         message |-> "Failed to save changes"]
         /\ UNCHANGED <<budgets, calls, issued, legacy>>

\* ScenarioSimulator.get_all_scenarios(): the stored scenario dicts.
get_all_scenarios(sc) == {sc[id] : id \in DOMAIN sc}

\* ScenarioSimulator.delete_scenario(scenario_id)
DeleteScenario(scenario_id, save_ok) ==
    IF scenario_id \notin DOMAIN scenarios
    THEN /\ ret' = [op |-> "delete_scenario", ok |-> FALSE,
                    message |-> "Scenario not found"]
         /\ UNCHANGED <<budgets, scenarios, calls, issued, legacy>>
    ELSE /\ scenarios' = Del(scenarios, scenario_id)
         /\ ret' = IF save_ok
                   THEN [op |-> "delete_scenario", ok |-> TRUE,
                         message |-> "Scenario deleted successfully"]
                   ELSE [op |-> "delete_scenario", ok |-> FALSE,
                         message |-> "Failed to save changes"]
         /\ UNCHANGED <<budgets, calls, issued, legacy>>

\* A simulate_scenario that indexes the scenario store: an unknown id raises
\* KeyError, which the handler reports as a failed simulation.
SimulateKeyError(scenario_id) ==
    LET r == simulate_scenario(budgets, scenarios, scenario_id)
    IN /\ budgets' = Deref(r.heap, "store")
       /\ ret' = [op |-> "simulate_scenario", scenario_id |-> scenario_id,
                  result |-> IF scenario_id \in DOMAIN scenarios THEN r.result
                             ELSE [error |-> "Simulation failed"]]
       /\ UNCHANGED <<scenarios, calls, issued, legacy>>

\* A simulation that takes each change off the stored list as it applies it
\* (changes.pop(0)).
StoredAfterConsuming(sc, scenario_id) ==
    IF scenario_id \in DOMAIN sc
    THEN [sc EXCEPT ![scenario_id].changes = <<>>]
    ELSE sc

\* app_data.scenarios after simulate_scenario(scenario_id): the call and
\* apply_change only read the scenario (scenarios.get, scenario['changes'],
\* change.get) and write none of its keys.
StoredAfterSimulation(sc, scenario_id) == sc

\* ScenarioSimulator.simulate_scenario(scenario_id)
Simulate(scenario_id) ==
    LET r == simulate_scenario(budgets, scenarios, scenario_id)
    IN /\ budgets' = Deref(r.heap, "store")
       /\ scenarios' = StoredAfterSimulation(scenarios, scenario_id)
       /\ ret' = [op |-> "simulate_scenario", scenario_id |-> scenario_id,
                  result |-> r.result]
       /\ UNCHANGED <<calls, issued, legacy>>

\* One call of a BudgetManager method.
BudgetCall ==
    \/ \E m \in MonthInputs, c \in Categories, a \in AmountInputs, ok \in BOOLEAN :
          SetBudget(m, c, a, ok)
    \/ \E s \in MonthInputs, t \in MonthInputs, ok \in BOOLEAN :
          CopyBudgetFromMonth(s, t, ok)
    \/ \E t \in TemplateInputs, ms \in MonthListInputs, ok \in BOOLEAN :
          ApplyTemplate(t, ms, ok)
    \/ \E t \in TemplateInputs, ok \in BOOLEAN : AutoFillAllMonths(t, ok)

\* One call of a manager method, create_scenario taking its changes from lists.
NextOver(lists) ==
    \/ BudgetCall
    \/ \E id \in ScenarioIds, n \in ScenarioNames, cs \in lists, ok \in BOOLEAN :
          CreateScenario(id, n, "", "budget_change", cs, ok)
    \/ \E id \in ScenarioIds \cup {UnknownId}, ok \in BOOLEAN : DeleteScenario(id, ok)
    \/ \E id \in ScenarioIds \cup {UnknownId} : Simulate(id)

Next == NextOver(SeqsUpTo(ChangeInputs, MaxChanges))

Spec == Init /\ [][Next]_vars

NextRange == NextOver(SeqsUpTo(RangeChangeInputs, MaxChanges))

\* The same program, its scenarios built from RangeChangeInputs.
SpecRange == Init /\ [][NextRange]_vars

\* The totals generate_impact_summary is called with: every thousand up to
\* 60,000 either side of 0, and the hundredths around the two limits.
RiskTotals ==
    {Amt(k * 1000) : k \in (0 - 60)..60}
      \cup {s * (Amt(l) + e) : s \in {0 - 1, 1}, l \in {10000, 50000}, e \in (0 - 1)..1}

\* ScenarioSimulator.generate_impact_summary(impact, scenario), called on an
\* impact report with the given totals.
GenerateImpactSummary(total_impact, affected_months) ==
    /\ ret' = [op |-> "generate_impact_summary", total_impact |-> total_impact,
               summary |-> generate_impact_summary(
                               [total_impact |-> total_impact,
                                affected_months |-> affected_months], EmptyDict)]
    /\ UNCHANGED <<budgets, scenarios, calls, issued, legacy>>

NextRisk ==
    \E t \in RiskTotals, n \in 0..HorizonLen : GenerateImpactSummary(t, n)

\* The risk classifier alone, on chosen totals.
SpecRisk == Init /\ [][NextRisk]_vars

\* Single changes of every kind: a zero, a positive and a negative recurring
\* delta, events and adjustments on a category set_budget writes and on one
\* only a template brings, over one month and over the whole horizon.
SingleChangeInputs ==
    { BudgetChange("Food", 0, FirstMonth, LastMonth),
      BudgetChange("Petrol", 0, LastMonth, LastMonth),
      BudgetChange("Food", Amt(5000), FirstMonth, LastMonth),
      BudgetChange("Food", Amt(0 - 4000), LastMonth, LastMonth),
      BudgetChange("Petrol", Amt(5000), FirstMonth, FirstMonth),
      Event("Food", Amt(2000), FirstMonth),
      Event("Petrol", Amt(2000), LastMonth),
      Adjustment("Food", "pause", FirstMonth, LastMonth),
      Adjustment("Petrol", "pause", LastMonth, LastMonth),
      Adjustment("Food", "double", FirstMonth, LastMonth),
      Adjustment("Petrol", "double", FirstMonth, FirstMonth) }

\* The change lists of the single-change scenarios, and the empty list.
SingleChangeLists == {<<>>} \cup {<<c>> : c \in SingleChangeInputs}

\* The change lists create_scenario is called with beside an empty name.
UnnamedChangeLists ==
    {<<>>, <<BudgetChange("Food", Amt(5000), FirstMonth, LastMonth)>>}

\* ScenarioSimulator.apply_change(snapshot, change), called on a snapshot the
\* caller took from the store with deepcopy: the snapshot's value before and
\* after the call, and what the call returned.
ApplyChangeCall(change) ==
    LET h0 == deepcopy(HeapOfStore(budgets), "store", "snapshot")
        r  == apply_change(h0, "snapshot", change)
    IN /\ budgets' = Deref(r.heap, "store")
       /\ ret' = [op |-> "apply_change", change |-> change,
                  before |-> Deref(h0, "snapshot"),
                  after |-> Deref(r.heap, "snapshot"),
                  returned |-> None]
       /\ UNCHANGED <<scenarios, calls, issued, legacy>>

NextSingle ==
    \/ NextOver(SingleChangeLists)
    \/ \E id \in ScenarioIds, cs \in UnnamedChangeLists, ok \in BOOLEAN :
          CreateScenario(id, "", "", "budget_change", cs, ok)

\* The same program, its scenarios holding at most one change, named or not.
SpecSingle == Init /\ [][NextSingle]_vars

\* Recurring changes of either sign and doubles, over the first month.
PairChangeInputs ==
    { BudgetChange("Food", Amt(5000), FirstMonth, FirstMonth),
      BudgetChange("Food", Amt(0 - 4000), FirstMonth, FirstMonth),
      BudgetChange("Petrol", Amt(5000), FirstMonth, FirstMonth),
      Adjustment("Food", "double", FirstMonth, FirstMonth),
      Adjustment("Petrol", "double", FirstMonth, FirstMonth) }

\* The scenarios of two changes over PairChangeInputs, in both orders.
PairChangeLists == {<<a, b>> : a \in PairChangeInputs, b \in PairChangeInputs}

NextPairs == NextOver(PairChangeLists)

\* The same program, its scenarios holding two changes each.
SpecPairs == Init /\ [][NextPairs]_vars

\* An amount too large for a float.
HugeAmount == 2 * FloatLimit

\* Scenarios one of whose changes fails: the huge amount fails the division
\* in calculate_impact, the list element that is no dict fails apply_change.
FailingChangeLists ==
    { <<BudgetChange("Food", HugeAmount, FirstMonth, FirstMonth)>>,
      <<BudgetChange("Food", Amt(5000), FirstMonth, LastMonth)>>,
      <<Event("Food", Amt(2000), FirstMonth), NotADict>> }

NextFailing == NextOver(FailingChangeLists)

\* The same program, its scenarios holding changes that make a step of the
\* simulation raise.
SpecFailing == Init /\ [][NextFailing]_vars

\* ------------------------------------- scenarios.py: ScenarioManager

\* The longest scenario list add_scenario is followed to.
MaxLegacy == 3

\* ScenarioManager.add_scenario(category, change, start_month, end_month)
LegacyAddScenario(category, change, start_month, end_month) ==
    /\ Len(legacy) < MaxLegacy
    /\ legacy' = Append(legacy, [id          |-> Len(legacy) + 1,
                                 category    |-> category,
                                 change      |-> change,
                                 start_month |-> start_month,
                                 end_month   |-> end_month])
    /\ UNCHANGED <<budgets, scenarios, ret, calls, issued>>

\* ScenarioManager.delete_scenario(scenario_id)
LegacyDeleteScenario(scenario_id) ==
    /\ legacy' = SelectSeq(legacy, LAMBDA s : s.id # scenario_id)
    /\ UNCHANGED <<budgets, scenarios, ret, calls, issued>>

NextLegacy ==
    \/ \E category \in Categories, change \in {Amt(500), 0 - Amt(500)},
          start_month \in HorizonMonths, end_month \in HorizonMonths :
          LegacyAddScenario(category, change, start_month, end_month)
    \/ \E scenario_id \in 1..(MaxLegacy + 1) : LegacyDeleteScenario(scenario_id)

\* Any sequence of add_scenario and delete_scenario calls on one
\* ScenarioManager.
SpecLegacy == Init /\ [][NextLegacy]_vars

\* The ids and the change lists of the scenarios created, simulated and
\* deleted side by side.
LifecycleIds == {"id-1", "id-2"}

LifecycleLists ==
    { <<BudgetChange("Food", Amt(5000), FirstMonth, FirstMonth)>>,
      <<Adjustment("Food", "pause", FirstMonth, LastMonth)>> }

NextLifecycle ==
    \/ \E m \in HorizonMonths : SetBudget(m, "Food", Amt(3000), TRUE)
    \/ \E id \in LifecycleIds, cs \in LifecycleLists, ok \in BOOLEAN :
          CreateScenario(id, "Plan", "", "budget_change", cs, ok)
    \/ \E id \in LifecycleIds \cup {UnknownId}, ok \in BOOLEAN : DeleteScenario(id, ok)
    \/ \E id \in LifecycleIds \cup {UnknownId} : Simulate(id)

\* Two scenarios created, simulated and deleted in any order.
SpecLifecycle == Init /\ [][NextLifecycle]_vars

\* The changes apply_change is called with on its own: the single changes,
\* and adjustments over the first and over the last month only.
ApplyChangeInputs ==
    SingleChangeInputs
      \cup { Adjustment("Food", "pause", FirstMonth, FirstMonth),
             Adjustment("Food", "double", LastMonth, LastMonth) }

NextApply ==
    \/ BudgetCall
    \/ \E change \in ApplyChangeInputs : ApplyChangeCall(change)

\* The budget store under the BudgetManager calls, and apply_change called
\* on snapshots of it.
SpecApply == Init /\ [][NextApply]_vars

\* simulate_scenario(scenario_id) run by caller t one statement at a time.
\* Lines 51-53: the lookup, and the early return for an unknown id.
SimBegin(t, scenario_id) ==
    /\ calls.frame[t].pc = "idle"
    /\ calls' = [calls EXCEPT !.frame[t] =
                   IF scenario_id \notin DOMAIN scenarios
                   THEN [pc |-> "done", scenario_id |-> scenario_id,
                         result |-> [error |-> "Scenario not found"]]
                   ELSE [pc |-> "copy_original", scenario_id |-> scenario_id,
                         scenario |-> scenarios[scenario_id]]]
    /\ UNCHANGED <<budgets, scenarios, ret, issued, legacy>>

\* Line 56: original_budgets = deepcopy(self.app_data.budgets)
SimCopyOriginal(t) ==
    /\ calls.frame[t].pc = "copy_original"
    /\ LET h == deepcopy(WithStore(budgets, calls.heap), "store", OriginalOf(t))
       IN /\ budgets' = Deref(h, "store")
          /\ calls' = [heap  |-> LocalsOf(h, {}),
                       frame |-> [calls.frame EXCEPT ![t].pc = "copy_simulated"]]
    /\ UNCHANGED <<scenarios, ret, issued, legacy>>

\* Line 57: simulated_budgets = deepcopy(self.app_data.budgets)
SimCopySimulated(t) ==
    /\ calls.frame[t].pc = "copy_simulated"
    /\ LET h == deepcopy(WithStore(budgets, calls.heap), "store", SimulatedOf(t))
       IN /\ budgets' = Deref(h, "store")
          /\ calls' = [heap  |-> LocalsOf(h, {}),
                       frame |-> [calls.frame EXCEPT ![t] =
                                    [pc |-> "apply", scenario_id |-> @.scenario_id,
                                     scenario |-> @.scenario, i |-> 1]]]
    /\ UNCHANGED <<scenarios, ret, issued, legacy>>

\* Lines 60-61: one pass of the loop over scenario['changes']; a change that
\* raises ends the call in the except branch (lines 73-75).
SimApplyChange(t) ==
    /\ calls.frame[t].pc = "apply"
    /\ calls.frame[t].i <= Len(calls.frame[t].scenario.changes)
    /\ LET f == calls.frame[t]
           r == apply_change(WithStore(budgets, calls.heap), SimulatedOf(t),
                             f.scenario.changes[f.i])
       IN /\ budgets' = Deref(r.heap, "store")
          /\ calls' =
               IF r.raised
               THEN [heap  |-> LocalsOf(r.heap, {OriginalOf(t), SimulatedOf(t)}),
                     frame |-> [calls.frame EXCEPT ![t] =
                                  [pc |-> "done", scenario_id |-> f.scenario_id,
                                   result |-> [error |-> "Simulation failed"]]]]
               ELSE [heap  |-> LocalsOf(r.heap, {}),
                     frame |-> [calls.frame EXCEPT ![t].i = @ + 1]]
    /\ UNCHANGED <<scenarios, ret, issued, legacy>>

\* Lines 64-71: after the loop, calculate_impact and the result dict.
SimCalculateImpact(t) ==
    /\ calls.frame[t].pc = "apply"
    /\ calls.frame[t].i > Len(calls.frame[t].scenario.changes)
    /\ LET f == calls.frame[t]
           h == WithStore(budgets, calls.heap)
           original  == Deref(h, OriginalOf(t))
           simulated == Deref(h, SimulatedOf(t))
       IN calls' =
            [heap  |-> LocalsOf(h, {OriginalOf(t), SimulatedOf(t)}),
             frame |-> [calls.frame EXCEPT ![t] =
                          [pc |-> "done", scenario_id |-> f.scenario_id,
                           result |->
                             [scenario          |-> f.scenario,
                              impact            |-> calculate_impact(original, simulated,
                                                                     f.scenario),
                              original_budgets  |-> original,
                              simulated_budgets |-> simulated]]]]
    /\ UNCHANGED <<budgets, scenarios, ret, issued, legacy>>

\* The call of caller t returns its result.
SimReturn(t) ==
    /\ calls.frame[t].pc = "done"
    /\ ret' = [op |-> "simulate_scenario",
               scenario_id |-> calls.frame[t].scenario_id,
               result |-> calls.frame[t].result]
    /\ calls' = [calls EXCEPT !.frame[t] = IdleFrame]
    /\ UNCHANGED <<budgets, scenarios, issued, legacy>>

\* No simulate_scenario call is in progress.
AllIdle == \A t \in Callers : calls.frame[t].pc = "idle"

\* The ids and the change lists of the scenarios simulated step by step.
InterleavedIds == {"id-1", "id-2"}

InterleavedLists ==
    { <<BudgetChange("Food", Amt(5000), FirstMonth, FirstMonth),
        Adjustment("Food", "double", FirstMonth, LastMonth)>>,
      <<Adjustment("Food", "pause", FirstMonth, FirstMonth)>>,
      <<Event("Petrol", Amt(2000), FirstMonth), NotADict>> }

\* One statement of one of the callers.
SimStep ==
    \/ \E t \in Callers, id \in InterleavedIds : SimBegin(t, id)
    \/ \E t \in Callers : SimCopyOriginal(t)
    \/ \E t \in Callers : SimCopySimulated(t)
    \/ \E t \in Callers : SimApplyChange(t)
    \/ \E t \in Callers : SimCalculateImpact(t)
    \/ \E t \in Callers : SimReturn(t)

\* The stores are written only while no call is in progress; the calls of
\* the two callers interleave statement by statement.
NextInterleaved ==
    \/ /\ AllIdle
       /\ \E m \in HorizonMonths, c \in Categories : SetBudget(m, c, Amt(3000), TRUE)
    \/ /\ AllIdle
       /\ AutoFillAllMonths("Conservative", TRUE)
    \/ /\ AllIdle
       /\ \E id \in InterleavedIds, cs \in InterleavedLists :
             CreateScenario(id, "Plan", "", "budget_change", cs, TRUE)
    \/ SimStep

SpecInterleaved == Init /\ [][NextInterleaved]_vars

\* The change list of the scenario simulated while set_budget runs.
RacingLists == { <<Event("Petrol", Amt(2000), FirstMonth)>> }

\* set_budget is called on the shared store at any point of a
\* simulate_scenario call, between two of its statements.
NextRacing ==
    \/ \E m \in HorizonMonths, amount \in {Amt(3000)} :
          SetBudget(m, "Food", amount, TRUE)
    \/ /\ AllIdle
       /\ \E cs \in RacingLists : CreateScenario("id-1", "Plan", "", "budget_change", cs, TRUE)
    \/ SimStep

\* A budget writer running beside the simulations.
SpecRacing == Init /\ [][NextRacing]_vars

\* ------------------------------------------------------------- claims

\* The last call was simulate_scenario.
Simulated == ret.op = "simulate_scenario"

\* The last call was simulate_scenario and it returned a simulation result.
SimulatedOk == Simulated /\ "error" \notin DOMAIN ret.result

\* The changes of the scenario the last simulate_scenario call ran.
SimulatedChanges == ret.result.scenario.changes

\* C1: simulate_scenario never changes the live budget store: the month ->
\* category -> amount mapping after the call equals the mapping before it,
\* whether the call returns a result or an error.  (Only Simulate sets
\* ret.op to "simulate_scenario".)
C1_StoreUnchanged ==
    [][ret'.op = "simulate_scenario" => budgets' = budgets]_vars

\* A simulation that changed its simulated copy returned, the store still
\* equal to the original snapshot.
C1_Witness ==
    /\ SimulatedOk
    /\ ret.result.simulated_budgets # ret.result.original_budgets
    /\ budgets = ret.result.original_budgets
    /\ budgets # EmptyDict

\* sum of monthly_changes[*].change
SumMonthlyChange(impact) ==
    SumValues([m \in DOMAIN impact.monthly_changes |-> impact.monthly_changes[m].change])

\* sum of category_impact[*].change
SumCategoryChange(impact) ==
    SumValues([c \in DOMAIN impact.category_impact |-> impact.category_impact[c].change])

\* C2: total-partition equality: the impact report returned by
\* simulate_scenario satisfies total_impact = sum of monthly_changes[*].change
\* = sum of category_impact[*].change.
C2_TotalPartition ==
    SimulatedOk =>
        /\ ret.result.impact.total_impact = SumMonthlyChange(ret.result.impact)
        /\ ret.result.impact.total_impact = SumCategoryChange(ret.result.impact)

\* C3: determinism: simulate_scenario called twice in a row for the same
\* scenario id returns identical results (impact report, original and
\* simulated snapshots).
C3_Deterministic ==
    [][(Simulated /\ ret'.op = "simulate_scenario"
        /\ ret'.scenario_id = ret.scenario_id) => ret'.result = ret.result]_vars

\* A simulation with a non-empty impact report returned; the call can be
\* repeated from here.
C3_Witness ==
    /\ SimulatedOk
    /\ ret.result.impact.affected_months > 0
    /\ ret.result.impact.category_impact # EmptyDict

\* The change applicator on snapshot values: the snapshot after one change.
ApplyToSnapshot(b, change) ==
    Deref(apply_change(HeapOfStore(b), "store", change).heap, "store")

RECURSIVE FoldChanges(_, _)
\* The left fold of the applicator over changes, starting from b.
FoldChanges(b, changes) ==
    IF changes = <<>> THEN b
    ELSE ApplyToSnapshot(FoldChanges(b, SubSeq(changes, 1, Len(changes) - 1)),
                         changes[Len(changes)])

\* C4: the simulated snapshot equals the left fold of the change applicator
\* over the scenario's changes in list order, starting from a clone of the
\* budget store.
C4_LeftFold ==
    SimulatedOk =>
        ret.result.simulated_budgets = FoldChanges(budgets, SimulatedChanges)

\* A simulation of two changes whose order matters returned.
C4_Witness ==
    /\ SimulatedOk
    /\ Len(SimulatedChanges) = 2
    /\ FoldChanges(budgets, SimulatedChanges)
         # FoldChanges(budgets, <<SimulatedChanges[2], SimulatedChanges[1]>>)
    /\ ret.result.simulated_budgets # budgets

\* change is a Recurring Budget Change of +d on category c over m..m.
IsRecurringAt(change, c, d, m) ==
    /\ IsDict(change)
    /\ Get(change, "type", "budget_change") = "budget_change"
    /\ Get(change, "category", None) = c
    /\ Get(change, "amount_change", 0) = d
    /\ Get(change, "start_month", None) = m
    /\ Get(change, "end_month", None) = m

\* change is a Pause of category c over m..m.
IsPauseAt(change, c, m) ==
    /\ IsDict(change)
    /\ Get(change, "type", "budget_change") = "investment_adjustment"
    /\ Get(change, "adjustment_type", "pause") = "pause"
    /\ Get(change, "category", None) = c
    /\ Get(change, "start_month", None) = m
    /\ Get(change, "end_month", None) = m

\* The amounts d a Recurring Budget Change of the inputs adds.
RecurringDeltas == {Amt(5000)}

\* C5: order sensitivity: where category c has an amount in month m, the
\* scenario [Recurring(+d on c, m..m), Pause(c, m..m)] yields c = 0 in m and
\* the scenario [Pause(c, m..m), Recurring(+d on c, m..m)] yields c = d in m.
C5_OrderSensitive ==
    SimulatedOk /\ Len(SimulatedChanges) = 2 =>
        \A m \in HorizonMonths, d \in RecurringDeltas :
          \A c \in IF m \in DOMAIN budgets THEN DOMAIN budgets[m] ELSE {} :
            /\ (IsRecurringAt(SimulatedChanges[1], c, d, m)
                /\ IsPauseAt(SimulatedChanges[2], c, m))
                  => ret.result.simulated_budgets[m][c] = 0
            /\ (IsPauseAt(SimulatedChanges[1], c, m)
                /\ IsRecurringAt(SimulatedChanges[2], c, d, m))
                  => ret.result.simulated_budgets[m][c] = d

\* [Pause, Recurring(+5000)] ran on a month where the category had 3000, and
\* the category ends at 5000.
C5_Witness ==
    /\ SimulatedOk
    /\ Len(SimulatedChanges) = 2
    /\ IsPauseAt(SimulatedChanges[1], "Food", FirstMonth)
    /\ IsRecurringAt(SimulatedChanges[2], "Food", Amt(5000), FirstMonth)
    /\ FirstMonth \in DOMAIN budgets
    /\ "Food" \in DOMAIN budgets[FirstMonth]
    /\ budgets[FirstMonth]["Food"] = Amt(3000)
    /\ ret.result.simulated_budgets[FirstMonth]["Food"] = Amt(5000)

\* [Recurring(+5000), Pause] ran on a month where the category had 3000, and
\* the category ends at 0.
C5_WitnessRecurringFirst ==
    /\ SimulatedOk
    /\ Len(SimulatedChanges) = 2
    /\ IsRecurringAt(SimulatedChanges[1], "Food", Amt(5000), FirstMonth)
    /\ IsPauseAt(SimulatedChanges[2], "Food", FirstMonth)
    /\ FirstMonth \in DOMAIN budgets
    /\ "Food" \in DOMAIN budgets[FirstMonth]
    /\ ret.result.simulated_budgets[FirstMonth]["Food"] = 0

\* The changes of the stored scenario the last simulate_scenario call named.
StoredChanges == scenarios[ret.scenario_id].changes

\* The last call was simulate_scenario on a stored scenario.
SimulatedStored == Simulated /\ ret.scenario_id \in DOMAIN scenarios

\* change is a Recurring Budget Change whose startMonth comes after its
\* endMonth in horizon order.
IsInvertedRecurring(change) ==
    /\ IsDict(change)
    /\ Get(change, "type", "budget_change") = "budget_change"
    /\ Get(change, "start_month", None) \in HorizonMonths
    /\ Get(change, "end_month", None) \in HorizonMonths
    /\ IndexOf(change.start_month) > IndexOf(change.end_month)

\* C6: invalid range rejection: if a scenario contains a Recurring Budget
\* Change whose startMonth comes after its endMonth, simulate returns an
\* error, not a successful result.
C6_InvertedRangeRejected ==
    (SimulatedStored
     /\ \E i \in 1..Len(StoredChanges) : IsInvertedRecurring(StoredChanges[i]))
        => "error" \in DOMAIN ret.result

\* change is range-based (Recurring Budget Change or Investment Adjustment)
\* with a startMonth or endMonth that is missing or not in the horizon.
IsUnresolvableRange(change) ==
    /\ IsDict(change)
    /\ Get(change, "type", "budget_change") \in {"budget_change", "investment_adjustment"}
    /\ \/ Get(change, "start_month", None) \notin HorizonMonths
       \/ Get(change, "end_month", None) \notin HorizonMonths

\* C7: if any change of a scenario is range-based with a startMonth or
\* endMonth that is missing or not in the planning horizon, simulate fails
\* with an error and returns no simulated snapshot.
C7_UnresolvableRangeRejected ==
    (SimulatedStored
     /\ \E i \in 1..Len(StoredChanges) : IsUnresolvableRange(StoredChanges[i]))
        => "error" \in DOMAIN ret.result

\* change is a One-Time Event whose eventMonth is not in the horizon.
IsOffHorizonEvent(change) ==
    /\ IsDict(change)
    /\ Get(change, "type", "budget_change") = "one_time_event"
    /\ Get(change, "event_month", Get(change, "start_month", None)) \notin HorizonMonths

\* C8: a One-Time Event whose eventMonth is not in the planning horizon makes
\* simulate return an error.
C8_OffHorizonEventRejected ==
    (SimulatedStored
     /\ \E i \in 1..Len(StoredChanges) : IsOffHorizonEvent(StoredChanges[i]))
        => "error" \in DOMAIN ret.result

\* C9: simulate_scenario called with an id that is not in the scenario store
\* returns the not-found error and nothing else (no snapshot), and leaves
\* the budget store and the scenario store unchanged.
C9_NotFound ==
    [][(ret'.op = "simulate_scenario" /\ ret'.scenario_id \notin DOMAIN scenarios)
         => /\ ret'.result = [error |-> "Scenario not found"]
            /\ budgets' = budgets
            /\ scenarios' = scenarios]_vars

\* simulate_scenario returned not-found for an unknown id while both stores
\* held data.
C9_Witness ==
    /\ Simulated
    /\ ret.scenario_id \notin DOMAIN scenarios
    /\ ret.result = [error |-> "Scenario not found"]
    /\ budgets # EmptyDict
    /\ scenarios # EmptyDict

\* The last call was generate_impact_summary.
Classified == ret.op = "generate_impact_summary"

\* C10: the risk level is low iff |totalImpact| < 10,000, medium iff
\* 10,000 <= |totalImpact| < 50,000 and high iff |totalImpact| >= 50,000
\* (so 9,999.99 is low, 10,000.00 medium, 49,999.99 medium, 50,000.00 high),
\* and t and -t get the same level and recommendation.
C10_RiskLevels ==
    Classified =>
        LET t == ret.total_impact
            a == IF t < 0 THEN 0 - t ELSE t
            mirrored == generate_impact_summary(
                            [total_impact |-> 0 - t, affected_months |-> 0], EmptyDict)
        IN /\ ret.summary.risk_level \in {"low", "medium", "high"}
           /\ ret.summary.risk_level = "low" <=> a < 1000000
           /\ ret.summary.risk_level = "medium" <=> (1000000 <= a /\ a < 5000000)
           /\ ret.summary.risk_level = "high" <=> a >= 5000000
           /\ a = 999999 => ret.summary.risk_level = "low"
           /\ a = 1000000 => ret.summary.risk_level = "medium"
           /\ a = 4999999 => ret.summary.risk_level = "medium"
           /\ a = 5000000 => ret.summary.risk_level = "high"
           /\ mirrored.risk_level = ret.summary.risk_level
           /\ mirrored.recommendation = ret.summary.recommendation

\* A total of exactly -50,000.00 was classified high.
C10_Witness ==
    /\ Classified
    /\ ret.total_impact = 0 - 5000000
    /\ ret.summary.risk_level = "high"

\* A total of 9,999.99 was classified low.
C10_WitnessLow ==
    /\ Classified
    /\ ret.total_impact = 999999
    /\ ret.summary.risk_level = "low"

\* ---------------------------------------------------- claims C11 to C20

\* The one change of the scenario the last simulate_scenario call ran.
SingleChange == SimulatedChanges[1]

\* The last call simulated a scenario of exactly one change.
SimulatedSingle == SimulatedOk /\ Len(SimulatedChanges) = 1

\* C11: a scenario whose only change is a recurring budget change with
\* amountDelta = 0 is a no-op: for any store, category and range its impact
\* report has affected_months = 0, empty monthly_changes, empty
\* category_impact, total_impact = 0 and risk level low, also when the change
\* created the category or month entry in the simulated snapshot.
C11_ZeroDeltaNoOp ==
    (SimulatedSingle /\ SingleChange.type = "budget_change"
                     /\ SingleChange.amount_change = 0) =>
        /\ ret.result.impact.affected_months = 0
        /\ ret.result.impact.monthly_changes = EmptyDict
        /\ ret.result.impact.category_impact = EmptyDict
        /\ ret.result.impact.total_impact = 0
        /\ ret.result.impact.summary.risk_level = "low"

\* A zero-delta scenario was simulated and its change created an entry: the
\* simulated snapshot differs from the original.
C11_Witness ==
    /\ SimulatedSingle
    /\ SingleChange.type = "budget_change"
    /\ SingleChange.amount_change = 0
    /\ ret.result.simulated_budgets # ret.result.original_budgets
    /\ ret.result.original_budgets # EmptyDict

\* sum(snapshot.get(month, {}).values())
MonthTotal(snapshot, month) == SumValues(Get(snapshot, month, EmptyDict))

RECURSIVE Gcd(_, _)
Gcd(x, y) == IF y = 0 THEN x ELSE Gcd(y, x % y)

\* The fraction num / den (den > 0) in lowest terms.
Lowest(f) ==
    LET g == Gcd(Abs(f.num), f.den)
    IN [num |-> f.num \div g, den |-> f.den \div g]

\* The last call simulated a scenario whose one change is a one-time event
\* of a positive amount in a horizon month whose budget total is positive.
SimulatedEventOnBudgetedMonth ==
    /\ SimulatedSingle
    /\ SingleChange.type = "one_time_event"
    /\ SingleChange.amount > 0
    /\ SingleChange.event_month \in HorizonMonths
    /\ MonthTotal(budgets, SingleChange.event_month) > 0

\* C12: a scenario whose only change is a one-time event {c, a > 0, m}, m a
\* month with budget entries of total T > 0, yields an impact report with
\* exactly one monthly entry, for m, with original_total = T, simulated_total
\* = T + a, change = a and change_percent = a / T * 100; category_impact
\* holds exactly the entry c with change = a; total_impact = a and
\* affected_months = 1.
C12_SingleEventReport ==
    SimulatedEventOnBudgetedMonth =>
        LET c == SingleChange.category
            a == SingleChange.amount
            m == SingleChange.event_month
            T == MonthTotal(budgets, m)
            impact == ret.result.impact
        IN /\ DOMAIN impact.monthly_changes = {m}
           /\ impact.monthly_changes[m].original_total = T
           /\ impact.monthly_changes[m].simulated_total = T + a
           /\ impact.monthly_changes[m].change = a
           /\ Lowest(impact.monthly_changes[m].change_percent)
                 = Lowest([num |-> a * 100, den |-> T])
           /\ DOMAIN impact.category_impact = {c}
           /\ impact.category_impact[c].change = a
           /\ impact.total_impact = a
           /\ impact.affected_months = 1
           /\ (a < LOW_RISK_LIMIT => impact.summary.risk_level = "low")

\* Such an event was simulated on a month that holds two categories, and on
\* a month that did not hold the event's category.
C12_Witness ==
    /\ SimulatedEventOnBudgetedMonth
    /\ Cardinality(DOMAIN budgets[SingleChange.event_month]) = 2
    /\ ret.result.impact.monthly_changes[SingleChange.event_month].original_total
         = Amt(6000)

C12_WitnessNewCategory ==
    /\ SimulatedEventOnBudgetedMonth
    /\ SingleChange.category \notin DOMAIN budgets[SingleChange.event_month]

\* The last call was apply_change on a snapshot.
Applied == ret.op = "apply_change"

\* C13: the change applicator returns a new snapshot and never mutates its
\* input: after applying a single change to a snapshot s, s itself is
\* unchanged and the result is a distinct snapshot the caller can compare
\* with s.
C13_InputUnchanged ==
    Applied => (ret.after = ret.before /\ ret.returned # None)

\* C14: a scenario with an empty name or an empty list of changes is
\* rejected when it is created and nothing is stored; hence after any
\* sequence of create_scenario calls every stored scenario has a non-empty
\* name and at least one change.
C14_StoredScenariosValid ==
    \A id \in DOMAIN scenarios :
        scenarios[id].name # "" /\ Len(scenarios[id].changes) >= 1

\* The cell (month, category) of a snapshot: <<amount>>, or <<>> when the
\* month or the category is absent.
Cell(snapshot, month, category) ==
    IF month \in DOMAIN snapshot /\ category \in DOMAIN snapshot[month]
    THEN <<snapshot[month][category]>>
    ELSE <<>>

\* The amount of a cell, 0 when the month or the category is absent.
AmountOr0(snapshot, month, category) ==
    Get(Get(snapshot, month, EmptyDict), category, 0)

\* The months and the categories of the cells the last apply_change call
\* could have touched or left alone.
AppliedMonths == HorizonMonths \cup DOMAIN ret.before \cup DOMAIN ret.after

AppliedCategories ==
    AllCategories(ret.before, ret.after) \cup {ret.change.category}

\* start_month and end_month are horizon months, start not after end.
HasValidRange(change) ==
    /\ change.start_month \in HorizonMonths
    /\ change.end_month \in HorizonMonths
    /\ IndexOf(change.start_month) <= IndexOf(change.end_month)

\* month is a horizon month in [start_month, end_month] of change.
InRange(change, month) ==
    /\ month \in HorizonMonths
    /\ IndexOf(change.start_month) <= IndexOf(month)
    /\ IndexOf(month) <= IndexOf(change.end_month)

AppliedRecurring ==
    Applied /\ ret.change.type = "budget_change" /\ HasValidRange(ret.change)

\* C16: applying a recurring budget change {c, d, s, e} with s <= e sets,
\* for every horizon month m in [s, e], snapshot[m][c] to (previous value,
\* or 0 if c or m was absent) + d, creating the entry where needed and
\* keeping a negative result negative; every other cell is unchanged.
C16_RecurringAddsDelta ==
    AppliedRecurring =>
        /\ DOMAIN ret.after
             = DOMAIN ret.before \cup {m \in HorizonMonths : InRange(ret.change, m)}
        /\ \A m \in AppliedMonths, c \in AppliedCategories :
              Cell(ret.after, m, c) =
                IF InRange(ret.change, m) /\ c = ret.change.category
                THEN <<AmountOr0(ret.before, m, c) + ret.change.amount_change>>
                ELSE Cell(ret.before, m, c)

\* A recurring change took a present amount below 0.
C16_Witness ==
    /\ AppliedRecurring
    /\ \E m \in DOMAIN ret.before :
          /\ Cell(ret.before, m, ret.change.category) # <<>>
          /\ ret.after[m][ret.change.category] < 0

\* A recurring change created a month entry beside the months it found.
C16_WitnessNewMonth ==
    /\ AppliedRecurring
    /\ ret.change.amount_change > 0
    /\ ret.before # EmptyDict
    /\ DOMAIN ret.after # DOMAIN ret.before

\* A recurring change created a category entry in a month it found.
C16_WitnessNewCategory ==
    /\ AppliedRecurring
    /\ \E m \in DOMAIN ret.before :
          /\ InRange(ret.change, m)
          /\ Cell(ret.before, m, ret.change.category) = <<>>

AppliedEvent ==
    /\ Applied
    /\ ret.change.type = "one_time_event"
    /\ ret.change.event_month \in HorizonMonths

\* C17: applying a one-time event {c, a, m}, m in the planning horizon, sets
\* snapshot[m][c] to (previous value, or 0 if absent) + a, whether or not
\* month m had any budget entry in the snapshot; every other cell is
\* unchanged.
C17_EventAddsAmount ==
    AppliedEvent =>
        \A m \in AppliedMonths, c \in AppliedCategories :
            Cell(ret.after, m, c) =
              IF m = ret.change.event_month /\ c = ret.change.category
              THEN <<AmountOr0(ret.before, m, c) + ret.change.amount>>
              ELSE Cell(ret.before, m, c)

AppliedAdjustment(kind) ==
    /\ Applied
    /\ ret.change.type = "investment_adjustment"
    /\ ret.change.adjustment_type = kind
    /\ HasValidRange(ret.change)

\* C18: a pause over [startMonth, endMonth] sets the category to 0 in every
\* month of the range where it is present, creates no entry where the
\* category or the month is absent, and leaves the months outside the range
\* and every other category unchanged; applying the same pause a second time
\* gives the same snapshot as applying it once.
C18_PauseZeroes ==
    AppliedAdjustment("pause") =>
        /\ DOMAIN ret.after = DOMAIN ret.before
        /\ \A m \in AppliedMonths, c \in AppliedCategories :
              Cell(ret.after, m, c) =
                IF /\ InRange(ret.change, m)
                   /\ c = ret.change.category
                   /\ Cell(ret.before, m, c) # <<>>
                THEN <<0>>
                ELSE Cell(ret.before, m, c)
        /\ ApplyToSnapshot(ret.after, ret.change) = ret.after

\* A pause zeroed a positive amount, its range also holding a month where
\* the category or the month is absent.
C18_Witness ==
    /\ AppliedAdjustment("pause")
    /\ \E m \in HorizonMonths :
          /\ InRange(ret.change, m)
          /\ AmountOr0(ret.before, m, ret.change.category) > 0
          /\ Cell(ret.after, m, ret.change.category) = <<0>>
    /\ \E m \in HorizonMonths :
          /\ InRange(ret.change, m)
          /\ Cell(ret.before, m, ret.change.category) = <<>>

\* C19: a double over [startMonth, endMonth] multiplies the category's
\* amount by exactly 2 in every month of the range where it is present,
\* creates no entry where it is absent, and leaves the months outside the
\* range and every other category unchanged.
C19_DoubleDoubles ==
    AppliedAdjustment("double") =>
        /\ DOMAIN ret.after = DOMAIN ret.before
        /\ \A m \in AppliedMonths, c \in AppliedCategories :
              Cell(ret.after, m, c) =
                IF /\ InRange(ret.change, m)
                   /\ c = ret.change.category
                   /\ Cell(ret.before, m, c) # <<>>
                THEN <<2 * ret.before[m][c]>>
                ELSE Cell(ret.before, m, c)

\* A double took 3000 to 6000 in the last month of its range, that range
\* also holding a month where the category or the month is absent.
C19_Witness ==
    /\ AppliedAdjustment("double")
    /\ Cell(ret.before, ret.change.end_month, ret.change.category) = <<Amt(3000)>>
    /\ Cell(ret.after, ret.change.end_month, ret.change.category) = <<Amt(6000)>>
    /\ \E m \in HorizonMonths :
          /\ InRange(ret.change, m)
          /\ Cell(ret.before, m, ret.change.category) = <<>>

\* C20: in every impact report, monthly_changes has an entry for horizon
\* month m if and only if simulatedTotal(m) - originalTotal(m) is not 0,
\* each entry's change equals simulated_total - original_total, and
\* affected_months is the number of entries of monthly_changes.
C20_MonthlyEntries ==
    SimulatedOk =>
        LET impact    == ret.result.impact
            original  == ret.result.original_budgets
            simulated == ret.result.simulated_budgets
        IN /\ DOMAIN impact.monthly_changes \subseteq HorizonMonths
           /\ \A m \in HorizonMonths :
                 m \in DOMAIN impact.monthly_changes
                   <=> MonthTotal(simulated, m) - MonthTotal(original, m) # 0
           /\ \A m \in DOMAIN impact.monthly_changes :
                 /\ impact.monthly_changes[m].original_total = MonthTotal(original, m)
                 /\ impact.monthly_changes[m].simulated_total = MonthTotal(simulated, m)
                 /\ impact.monthly_changes[m].change
                      = impact.monthly_changes[m].simulated_total
                          - impact.monthly_changes[m].original_total
           /\ impact.affected_months = Cardinality(DOMAIN impact.monthly_changes)

\* A report with an entry of negative change, and a horizon month with no
\* entry although the simulation changed that month's dict.
C20_Witness ==
    /\ SimulatedOk
    /\ \E m \in DOMAIN ret.result.impact.monthly_changes :
          ret.result.impact.monthly_changes[m].change < 0

C20_WitnessNoEntry ==
    /\ SimulatedOk
    /\ \E m \in HorizonMonths :
          /\ m \notin DOMAIN ret.result.impact.monthly_changes
          /\ Get(ret.result.simulated_budgets, m, EmptyDict)
               # Get(ret.result.original_budgets, m, EmptyDict)

\* The simulated snapshot of a call that has applied its first n changes,
\* had it run alone.
AloneAfter(scenario, n) == FoldChanges(budgets, SubSeq(scenario.changes, 1, n))

\* C15: two simulate_scenario calls, on the same or on different scenarios,
\* whose statements interleave in any order while no budget is written, each
\* return exactly the result they return when run alone, and at every point
\* each call's original snapshot is the store's value and its simulated
\* snapshot the one it has when run alone: neither call alters the stores or
\* the other call's snapshots.
C15_InterleavedAsAlone ==
    \A t \in Callers :
        LET f == calls.frame[t]
            h == WithStore(budgets, calls.heap)
        IN /\ f.pc = "done" =>
                f.result = simulate_scenario(budgets, scenarios, f.scenario_id).result
           /\ f.pc \in {"copy_simulated", "apply"} =>
                Deref(h, OriginalOf(t)) = budgets
           /\ f.pc = "apply" =>
                Deref(h, SimulatedOf(t)) = AloneAfter(f.scenario, f.i - 1)

\* Both calls are inside their loops, on different scenarios, each having
\* changed its simulated snapshot.
C15_Witness ==
    /\ \A t \in Callers :
          /\ calls.frame[t].pc = "apply"
          /\ calls.frame[t].i = 2
          /\ Deref(WithStore(budgets, calls.heap), SimulatedOf(t)) # budgets
    /\ calls.frame[1].scenario_id # calls.frame[2].scenario_id
    /\ calls.frame[1].scenario.changes # calls.frame[2].scenario.changes

\* One call has returned a result with an impact while the other is inside
\* its loop.
C15_WitnessDone ==
    /\ calls.frame[1].pc = "done"
    /\ "error" \notin DOMAIN calls.frame[1].result
    /\ calls.frame[1].result.impact.total_impact # 0
    /\ calls.frame[2].pc = "apply"
    /\ calls.frame[2].i = 2

\* ---------------------------------------------------- claims C21 to C30

\* change / original_total * 100 as a fraction in lowest terms
\* (original_total not 0).
PercentOf(change, original_total) ==
    IF original_total > 0
    THEN Lowest([num |-> change * 100, den |-> original_total])
    ELSE Lowest([num |-> 0 - change * 100, den |-> 0 - original_total])

\* C21: for every monthly entry of an impact report, change_percent equals
\* change / original_total * 100 when original_total is not 0 and equals 0
\* when original_total is 0; a month whose original total is 0 never makes
\* the simulation fail.
C21_ChangePercent ==
    Simulated =>
        /\ ret.result # [error |-> "Simulation failed"]
        /\ SimulatedOk =>
              \A m \in DOMAIN ret.result.impact.monthly_changes :
                  LET e == ret.result.impact.monthly_changes[m]
                  IN IF e.original_total # 0
                     THEN Lowest(e.change_percent) = PercentOf(e.change, e.original_total)
                     ELSE e.change_percent.num = 0

\* A report with an entry for a month that had no budget (original total 0)
\* and an entry for a month that had one.
C21_Witness ==
    /\ SimulatedOk
    /\ \E m \in DOMAIN ret.result.impact.monthly_changes :
          /\ ret.result.impact.monthly_changes[m].original_total = 0
          /\ ret.result.impact.monthly_changes[m].change > 0
    /\ \E m \in DOMAIN ret.result.impact.monthly_changes :
          ret.result.impact.monthly_changes[m].original_total > 0

\* The categories that occur in some month of a snapshot.
SnapshotCategories(snapshot) ==
    UNION {DOMAIN snapshot[m] : m \in DOMAIN snapshot}

\* The sum of a category over all months of a snapshot.
SumOverMonths(snapshot, category) ==
    SumValues([m \in DOMAIN snapshot |-> AmountOr0(snapshot, m, category)])

\* C22: in every impact report, category_impact has an entry for category c
\* if and only if the sum of c over all months of the simulated snapshot
\* differs from its sum over all months of the original snapshot, c ranging
\* over the categories of both snapshots, and the entry's change is that
\* difference.
C22_CategoryEntries ==
    SimulatedOk =>
        LET impact    == ret.result.impact
            original  == ret.result.original_budgets
            simulated == ret.result.simulated_budgets
            both      == SnapshotCategories(original) \cup SnapshotCategories(simulated)
        IN /\ DOMAIN impact.category_impact \subseteq both
           /\ \A c \in both :
                 c \in DOMAIN impact.category_impact
                   <=> SumOverMonths(simulated, c) # SumOverMonths(original, c)
           /\ \A c \in DOMAIN impact.category_impact :
                 impact.category_impact[c].change
                   = SumOverMonths(simulated, c) - SumOverMonths(original, c)

\* A report with an entry for a category the original snapshot did not
\* hold, the original holding another category without an entry.
C22_Witness ==
    /\ SimulatedOk
    /\ \E c \in DOMAIN ret.result.impact.category_impact :
          c \notin SnapshotCategories(ret.result.original_budgets)
    /\ \E c \in SnapshotCategories(ret.result.original_budgets) :
          c \notin DOMAIN ret.result.impact.category_impact

\* change is a Double of category c over m..m.
IsDoubleAt(change, c, m) ==
    /\ IsDict(change)
    /\ Get(change, "type", "budget_change") = "investment_adjustment"
    /\ Get(change, "adjustment_type", "pause") = "double"
    /\ Get(change, "category", None) = c
    /\ Get(change, "start_month", None) = m
    /\ Get(change, "end_month", None) = m

\* The amounts d the recurring changes of PairChangeInputs add.
PairDeltas == {Amt(5000), Amt(0 - 4000)}

\* The result of simulating, on the store b, the changes in reverse order.
SimulateReversed(b, scenario) ==
    simulate_scenario(b,
        [id \in {scenario.id} |->
            [scenario EXCEPT !.changes = <<scenario.changes[2], scenario.changes[1]>>]],
        scenario.id).result

\* C23: Double does not commute with a recurring change: in a month where
\* category c is present with amount x, and for d # 0, [Recurring(+d),
\* Double] over that month yields 2 * (x + d) and [Double, Recurring(+d)]
\* yields 2 * x + d; the two scenarios give different simulated snapshots
\* and different total impacts.
C23_DoubleOrder ==
    SimulatedOk /\ Len(SimulatedChanges) = 2 =>
        LET original == ret.result.original_budgets
            reversed == SimulateReversed(original, ret.result.scenario)
        IN \A m \in HorizonMonths, d \in PairDeltas :
             \A c \in IF m \in DOMAIN original THEN DOMAIN original[m] ELSE {} :
               /\ (IsRecurringAt(SimulatedChanges[1], c, d, m)
                   /\ IsDoubleAt(SimulatedChanges[2], c, m))
                     => /\ ret.result.simulated_budgets[m][c] = 2 * (original[m][c] + d)
                        /\ reversed.simulated_budgets[m][c] = 2 * original[m][c] + d
                        /\ reversed.simulated_budgets # ret.result.simulated_budgets
                        /\ reversed.impact.total_impact # ret.result.impact.total_impact
               /\ (IsDoubleAt(SimulatedChanges[1], c, m)
                   /\ IsRecurringAt(SimulatedChanges[2], c, d, m))
                     => ret.result.simulated_budgets[m][c] = 2 * original[m][c] + d

\* [Recurring(-4000), Double] ran on a month where the category had 3000: it
\* ends at -2000, and at 2000 in the other order.
C23_Witness ==
    /\ SimulatedOk
    /\ Len(SimulatedChanges) = 2
    /\ IsRecurringAt(SimulatedChanges[1], "Food", Amt(0 - 4000), FirstMonth)
    /\ IsDoubleAt(SimulatedChanges[2], "Food", FirstMonth)
    /\ Cell(ret.result.original_budgets, FirstMonth, "Food") = <<Amt(3000)>>
    /\ ret.result.simulated_budgets[FirstMonth]["Food"] = Amt(0 - 2000)
    /\ SimulateReversed(ret.result.original_budgets, ret.result.scenario)
         .simulated_budgets[FirstMonth]["Food"] = Amt(2000)

\* [Double, Recurring(+5000)] ran on a month where the category had 3000 and
\* ends at 11000.
C23_WitnessDoubleFirst ==
    /\ SimulatedOk
    /\ Len(SimulatedChanges) = 2
    /\ IsDoubleAt(SimulatedChanges[1], "Food", FirstMonth)
    /\ IsRecurringAt(SimulatedChanges[2], "Food", Amt(5000), FirstMonth)
    /\ Cell(ret.result.original_budgets, FirstMonth, "Food") = <<Amt(3000)>>
    /\ ret.result.simulated_budgets[FirstMonth]["Food"] = Amt(11000)

\* The keys of an impact report that hold its totals.
ImpactTotals ==
    {"monthly_changes", "total_impact", "affected_months", "category_impact"}

\* C24: any internal failure during a simulation, a failure inside the
\* impact calculation included, reaches the caller of simulate_scenario as
\* an error result: a result that the caller's error check accepts
\* ('error' not in results) always carries an impact report with its totals.
C24_FailuresReachCaller ==
    SimulatedOk => ImpactTotals \subseteq DOMAIN ret.result.impact

\* C25: a simulation never edits the scenario it runs against: after
\* simulate_scenario(id) the stored scenario (name, description, type, the
\* ordered list of changes and every field of every change) is what it was
\* before the call, and the set of stored scenarios is unchanged.
C25_ScenarioUnchanged ==
    [][ret'.op = "simulate_scenario" => scenarios' = scenarios]_vars

\* A stored scenario of two changes was simulated, changed its simulated
\* snapshot, and is still stored as the result shows it.
C25_Witness ==
    /\ SimulatedOk
    /\ Len(SimulatedChanges) = 2
    /\ ret.result.simulated_budgets # ret.result.original_budgets
    /\ ret.scenario_id \in DOMAIN scenarios
    /\ scenarios[ret.scenario_id] = ret.result.scenario

\* C27: after any sequence of set_budget, copy_budget_from_month,
\* apply_template and auto_fill_all_months calls from an empty store, every
\* month key of the budget store is a month of PLANNING_MONTHS and every
\* stored amount is non-negative.
C27_StoreInHorizon ==
    \A m \in DOMAIN budgets :
        /\ m \in HorizonMonths
        /\ \A c \in DOMAIN budgets[m] : budgets[m][c] >= 0

\* C28: whenever create_scenario or delete_scenario returns failure, a
\* failed save included, the in-memory scenario store is what it was before
\* the call.
C28_FailureLeavesStore ==
    [][(ret'.op \in {"create_scenario", "delete_scenario"} /\ ~ret'.ok)
         => scenarios' = scenarios]_vars

\* The scenario id was created and is no longer stored: it was deleted.
WasDeleted(id) == id \in issued /\ id \notin DOMAIN scenarios

\* id is not listed, and a simulate_scenario(id) that just returned
\* returned the not-found error.
GoneFor(id) ==
    /\ \A scenario \in get_all_scenarios(scenarios) : scenario.id # id
    /\ (Simulated /\ ret.scenario_id = id)
          => ret.result = [error |-> "Scenario not found"]

\* A simulate_scenario that just returned found its scenario exactly when
\* the scenario is stored.
StoredAreSimulatable ==
    Simulated =>
        (ret.result = [error |-> "Scenario not found"]
           <=> ret.scenario_id \notin DOMAIN scenarios)

\* A delete_scenario step either finds no such id, returns (False, "Scenario
\* not found") and leaves the store unchanged, or removes exactly one
\* scenario and leaves every other one unchanged.
DeleteStep ==
    ret'.op = "delete_scenario" =>
        IF scenarios' = scenarios
        THEN ret' = [op |-> "delete_scenario", ok |-> FALSE,
                     message |-> "Scenario not found"]
        ELSE /\ ret'.message # "Scenario not found"
             /\ \E id \in DOMAIN scenarios : scenarios' = Del(scenarios, id)

\* C29: after delete_scenario(id) has removed a scenario, every later
\* simulate_scenario(id) returns the not-found error and get_all_scenarios
\* no longer lists it, while every other stored scenario is unchanged and
\* still simulatable; delete_scenario on an id that is not stored returns
\* (False, "Scenario not found") and leaves the store unchanged.
C29_DeletedStaysGone ==
    /\ \A id \in LifecycleIds : [](WasDeleted(id) => []GoneFor(id))
    /\ []StoredAreSimulatable
    /\ [][DeleteStep]_vars

\* The first scenario was deleted and a later simulate_scenario of it
\* returned not found, the second one still stored.
C29_Witness ==
    /\ WasDeleted("id-1")
    /\ Simulated
    /\ ret.scenario_id = "id-1"
    /\ ret.result = [error |-> "Scenario not found"]
    /\ "id-2" \in DOMAIN scenarios

\* The categories the changes of the scenario name.
TargetedCategories(scenario) ==
    { scenario.changes[i].category :
        i \in {j \in 1..Len(scenario.changes) : IsDict(scenario.changes[j])} }

\* C26: within one simulate_scenario call the original and the simulated
\* snapshot come from the same state of the budget store: every (month,
\* category) cell that no change of the scenario targets is equal in both,
\* also when set_budget calls are interleaved with the call's statements.
C26_SnapshotsFromOneState ==
    \A t \in Callers :
        LET f == calls.frame[t]
        IN (f.pc = "done" /\ "impact" \in DOMAIN f.result) =>
             \A month \in DOMAIN f.result.original_budgets
                            \cup DOMAIN f.result.simulated_budgets,
                category \in Categories \ TargetedCategories(f.result.scenario) :
                 Cell(f.result.original_budgets, month, category)
                   = Cell(f.result.simulated_budgets, month, category)

\* C30: in the ScenarioManager of scenarios.py, after any sequence of
\* add_scenario and delete_scenario calls the stored scenarios have
\* pairwise distinct ids, so that delete_scenario(id) removes at most one.
C30_LegacyIdsDistinct ==
    \A i \in 1..Len(legacy), j \in 1..Len(legacy) :
        i # j => legacy[i].id # legacy[j].id

====
